---------------------------- MODULE Spec2Model ----------------------------
(***************************************************************************)
(* State-machine model of the asistant.pro deadline-tracker backend.       *)
(*                                                                         *)
(*   - the subscription API server (src/unnamed/part_000, and the two      *)
(*     older copies in src/backend/server.js): registration, the bearer    *)
(*     token middleware, the trial gate, the transaction endpoints, the    *)
(*     Stripe webhook and the extend-trial endpoint;                       *)
(*   - the reminder front end (src/real-estate-server.js) and the          *)
(*     reminder scanner it calls.                                          *)
(*                                                                         *)
(* Time is counted in ticks, TicksPerDay ticks to the day (the code        *)
(* counts milliseconds, 1000*60*60*24 to the day).  Calendar dates are     *)
(* day numbers.                                                            *)
(***************************************************************************)
EXTENDS Integers, Sequences, FiniteSets, TLC

VARIABLES
    now,           \* wall clock, in ticks
    users,         \* table users: sequence of rows, row i has id i
    customers,     \* billing-provider customers created so far (emails)
    tokens,        \* bearer tokens issued so far
    regs,          \* in-flight POST /api/register requests, by slot
    reqs,          \* in-flight authenticated requests, by slot
    transactions,  \* table transactions: set of rows
    lastTxId,      \* AUTOINCREMENT counter of table transactions
    dbQueue,       \* statements handed to db.run without a callback
    scans,         \* the reminder scanner's passes, by trigger
    scanLock,      \* which trigger holds the scanner
    sentMarks,     \* (transaction, milestone) pairs marked sent
    sendLog,       \* every call of the Notification Sender, in order
    trig,          \* the POST /api/trigger-reminders request in flight
    proc,          \* the reminder front end's process
    gmail,         \* the Gmail sender of the front end
    addTx,         \* the POST /api/add-transaction request in flight
    autoStore,     \* the transactions the automation service holds
    testReq        \* the POST /api/send-test-reminder request in flight

scanVars == <<scans, scanLock, sentMarks, sendLog, trig>>

frontVars == <<proc, gmail, addTx, autoStore, testReq>>

vars == <<now, users, customers, tokens, regs, reqs, transactions, lastTxId,
          dbQueue, scans, scanLock, sentMarks, sendLog, trig,
          proc, gmail, addTx, autoStore, testReq>>

NoPair == <<0, "">>

IdleScan ==
    [ pc |-> "idle", epoch |-> 0, today |-> 0, cur |-> NoPair,
      sent |-> 0, errors |-> 0 ]

NoResults == [sent |-> 0, errors |-> 0]

IdleTrig == [pc |-> "idle", status |-> 0, success |-> FALSE, results |-> NoResults]

(* Values of a date or number field.  A day number or an amount stands for *)
(* itself; the other values a request or a column can hold are coded       *)
(* below zero.                                                             *)

\* SQL NULL, undefined: the field is absent
NULL == 0 - 1

\* '': the field was left empty
EmptyString == 0 - 2

\* a text that is not a number and not a date, such as 'abc'
NonNumber == 0 - 3

\* NaN, and the time value of an Invalid Date
NaN == 0 - 4

\* a negative amount
NegativePrice == 0 - 50

\* !v
JsFalsy(v) == v \in {NULL, 0, EmptyString, NaN}

\* v || d
OrElse(v, d) == IF JsFalsy(v) THEN d ELSE v

\* parseFloat(v)
parseFloat(v) == IF v \in {NULL, EmptyString, NonNumber} THEN NaN ELSE v

NoDeadlines ==
    [ optionPeriodEnd |-> NULL, inspectionDate |-> NULL, appraisalDate |-> NULL,
      financingDeadline |-> NULL, closingDate |-> NULL ]

NoBody == [contract_date |-> NULL, closing_date |-> NULL, list_price |-> NULL]

IdleAdd ==
    [ pc |-> "idle", body |-> NoBody, status |-> 0, success |-> FALSE,
      transactionId |-> 0, deadlines |-> NoDeadlines ]

IdleTest == [pc |-> "idle", agentEmail |-> "", status |-> 0, success |-> FALSE]

\* the reminder front end before startServer() has run
FrontOff ==
    /\ proc = "starting"
    /\ gmail = [initialized |-> FALSE]
    /\ addTx = IdleAdd
    /\ autoStore = <<>>
    /\ testReq = IdleTest

\* the reminder scanner at rest
ScannerOff ==
    /\ FrontOff
    /\ scans = [p \in {"timer", "manual"} |-> IdleScan]
    /\ scanLock = [holder |-> "none", epoch |-> 0]
    /\ sentMarks = {}
    /\ sendLog = <<>>
    /\ trig = IdleTrig

---------------------------------------------------------------------------
(* Bounds of the model *)

TicksPerDay == 2
MaxDay == 31
MaxRegTick == 1
MaxCustomers == 3
MaxQueue == 1
MaxTx == 2
MaxScans == 3

(* Program constants *)

TrialDays == 15
ExtendedTrialDays == 22
TokenDays == 30

\* the reminder window of the scanner, in days
ReminderWindow == 7

MaxNow == MaxDay * TicksPerDay

Emails == {"a@x", "b@x"}

---------------------------------------------------------------------------
(* Date <-> text.  new Date().toISOString() writes the instant as text,    *)
(* new Date(text) reads it back.                                           *)

toISOString(t) == <<t \div TicksPerDay, t % TicksPerDay>>

DateParse(iso) == iso[1] * TicksPerDay + iso[2]

---------------------------------------------------------------------------
(* Bearer tokens *)

EmptyTok == [sub |-> 0, iat |-> 0, sig |-> ""]

jwtSign(userId, t) == [sub |-> userId, iat |-> t, sig |-> "good"]

\* jwt.verify with ignoreExpiration
jwtVerifyIgnoringExpiry(tok, t) == tok.sig = "good"

jwtVerify(tok, t) ==
    /\ tok.sig = "good"
    /\ t < tok.iat + TokenDays * TicksPerDay

\* authHeader && authHeader.split(' ')[1]
HeaderToken(h) ==
    IF h.present /\ Len(h.parts) >= 2 THEN h.parts[2] ELSE EmptyTok

Falsy(tok) == tok = EmptyTok

NoHeader == [present |-> FALSE, parts |-> <<>>]

Bearer(tok) == [present |-> TRUE, parts |-> <<EmptyTok, tok>>]

BareScheme == [present |-> TRUE, parts |-> <<EmptyTok>>]

ForgedTokens == {[sub |-> 1, iat |-> 0, sig |-> "bad"]}

Headers == {NoHeader, BareScheme, Bearer(EmptyTok)}
             \cup {Bearer(t) : t \in tokens \cup ForgedTokens}

---------------------------------------------------------------------------
(* Table users *)

UserIds == 1..Len(users)

EmailTaken(e) == \E i \in UserIds : users[i].email = e

NewUserRow(email, customerId, trialStartDate) ==
    [ email               |-> email,
      stripe_customer_id  |-> customerId,
      subscription_status |-> "trial",
      subscription_id     |-> 0,
      trial_start_date    |-> trialStartDate,
      trial_extended      |-> 0 ]

\* the INSERT on a table whose email column is not UNIQUE
InsertUserNoUnique(email) ==
    IF email = "" THEN "NOT NULL constraint failed" ELSE "ok"

\* INSERT INTO users ...: the UNIQUE constraint on email, NOT NULL on email
InsertUserResult(email) ==
    IF email = "" THEN "NOT NULL constraint failed"
    ELSE IF EmailTaken(email) THEN "UNIQUE constraint failed"
    ELSE "ok"

---------------------------------------------------------------------------
(* POST /api/register.  The handler awaits the password hash, then the     *)
(* billing provider, then hands the INSERT to the database; each await is  *)
(* a point where other requests run.                                       *)

IdleReg ==
    [ pc |-> "idle", email |-> "", password |-> FALSE,
      trialStartDate |-> <<0, 0>>, customerId |-> 0,
      status |-> 0, error |-> "", userId |-> 0 ]

RegBodies ==
    {[email |-> e, password |-> TRUE] : e \in Emails}
      \cup {[email |-> "", password |-> TRUE],
            [email |-> "a@x", password |-> FALSE]}

\* if (!email || !password) return 400; else start bcrypt.hash
RegisterBegin(s) ==
    /\ regs[s].pc \in {"idle", "done"}
    /\ Len(customers) < MaxCustomers
    /\ \E b \in RegBodies :
         regs' = [regs EXCEPT ![s] =
            IF b.email = "" \/ ~b.password
            THEN [IdleReg EXCEPT !.pc = "done", !.email = b.email,
                                 !.status = 400,
                                 !.error = "Email and password required"]
            ELSE [IdleReg EXCEPT !.pc = "hash", !.email = b.email,
                                 !.password = TRUE]]
    /\ UNCHANGED <<scanVars, frontVars, now, users, customers, tokens, reqs, transactions,
                   lastTxId, dbQueue>>

\* the hash is ready: trialStartDate = new Date().toISOString(), then
\* stripe.customers.create is called
RegisterHashed(s) ==
    /\ regs[s].pc = "hash"
    /\ regs' = [regs EXCEPT ![s].pc = "stripe",
                            ![s].trialStartDate = toISOString(now)]
    /\ UNCHANGED <<scanVars, frontVars, now, users, customers, tokens, reqs, transactions,
                   lastTxId, dbQueue>>

\* stripe.customers.create resolves with a new customer, or rejects and
\* the catch block answers 500
RegisterCustomer(s) ==
    /\ regs[s].pc = "stripe"
    /\ \E ok \in BOOLEAN :
         IF ok
         THEN /\ customers' = Append(customers, regs[s].email)
              /\ regs' = [regs EXCEPT ![s].pc = "insert",
                                      ![s].customerId = Len(customers) + 1]
         ELSE /\ customers' = customers
              /\ regs' = [regs EXCEPT ![s].pc = "done", ![s].status = 500,
                                      ![s].error = "Registration failed"]
    /\ UNCHANGED <<scanVars, frontVars, now, users, tokens, reqs, transactions, lastTxId, dbQueue>>

\* the INSERT runs and its callback answers
RegisterInsertAs(s, res) ==
    IF res = "ok"
    THEN /\ users' = Append(users, NewUserRow(regs[s].email, regs[s].customerId,
                                              regs[s].trialStartDate))
         /\ tokens' = tokens \cup {jwtSign(Len(users) + 1, now)}
         /\ regs' = [regs EXCEPT ![s].pc = "done", ![s].status = 200,
                                 ![s].userId = Len(users) + 1]
    ELSE /\ users' = users
         /\ tokens' = tokens
         /\ regs' = [regs EXCEPT ![s].pc = "done",
                 ![s].status = IF res = "UNIQUE constraint failed" THEN 400 ELSE 500,
                 ![s].error  = IF res = "UNIQUE constraint failed"
                               THEN "Email already registered"
                               ELSE "Registration failed"]

RegisterInsert(s) ==
    /\ regs[s].pc = "insert"
    /\ RegisterInsertAs(s, InsertUserResult(regs[s].email))
    /\ UNCHANGED <<scanVars, frontVars, now, customers, reqs, transactions, lastTxId, dbQueue>>

---------------------------------------------------------------------------
(* Milestones and columns *)

Milestones ==
    {"option_period_end", "inspection_date", "appraisal_date",
     "financing_deadline", "closing_date"}

MilestoneOrder ==
    <<"option_period_end", "inspection_date", "appraisal_date",
      "financing_deadline", "closing_date">>

\* The columns of table transactions a statement can name (the text
\* columns address, client and type carry no logic and are left out).
Columns ==
    {"id", "user_id", "contract_date", "closing_date", "list_price",
     "option_period_end", "inspection_date", "appraisal_date",
     "financing_deadline", "notes", "modified_deadlines"}

---------------------------------------------------------------------------
(* JSON text of an override map.  An object is a function from keys to     *)
(* values; its text lists the pairs.                                       *)

RECURSIVE PairsFrom(_, _)
PairsFrom(obj, i) ==
    IF i > Len(MilestoneOrder) THEN <<>>
    ELSE IF MilestoneOrder[i] \in DOMAIN obj
         THEN <<<<MilestoneOrder[i], obj[MilestoneOrder[i]]>>>>
                \o PairsFrom(obj, i + 1)
         ELSE PairsFrom(obj, i + 1)

\* a text cut off after the first pair
JSONstringifyPartial(obj) ==
    [ json |-> "object",
      pairs |-> IF PairsFrom(obj, 1) = <<>> THEN <<>>
                ELSE <<Head(PairsFrom(obj, 1))>> ]

JSONstringify(obj) == [json |-> "object", pairs |-> PairsFrom(obj, 1)]

JSONparse(text) ==
    [k \in {text.pairs[i][1] : i \in DOMAIN text.pairs} |->
        LET i == CHOOSE i \in DOMAIN text.pairs :
                    /\ text.pairs[i][1] = k
                    /\ \A j \in DOMAIN text.pairs : text.pairs[j][1] = k => j <= i
        IN  text.pairs[i][2]]

EmptyObject == [k \in {} |-> 0]

\* a text that is not JSON, such as  soon
PlainText == [json |-> "text", pairs |-> <<>>]

\* JSON.parse throws a SyntaxError on a text that is not JSON
JSONparseThrows(text) == text.json = "text"

\* a column that holds NULL or the empty string: falsy in JavaScript
NoText == [json |-> "", pairs |-> <<>>]

---------------------------------------------------------------------------
(* Authenticated endpoints.  A request is answered in up to three turns of *)
(* the event loop: arrival (authenticateToken, synchronous), the gate's    *)
(* db.get callback (checkSubscription), the handler's statement and its    *)
(* callback.                                                               *)

GatedEndpoints == {"list", "create", "update", "delete"}

NoForm ==
    [ contract_date |-> NULL, closing_date |-> NULL, list_price |-> NULL,
      option_period_end |-> NULL, inspection_date |-> NULL,
      appraisal_date |-> NULL, financing_deadline |-> NULL, notes |-> "" ]

IdleReq ==
    [ pc |-> "idle", ep |-> "list", header |-> NoHeader, user |-> 0,
      id |-> 0, form |-> NoForm, updates |-> <<>>,
      status |-> 0, error |-> "", trialExpired |-> FALSE,
      rows |-> {}, newId |-> 0,
      cred |-> "none", gateRan |-> FALSE, handlerRan |-> FALSE ]

\* What the caller holds: no token, a token this server issued that has
\* not expired, or anything else.
Credential(h, t) ==
    IF ~h.present \/ Len(h.parts) < 2 \/ h.parts[2] = EmptyTok THEN "none"
    ELSE IF h.parts[2] \in tokens
            /\ t < h.parts[2].iat + TokenDays * TicksPerDay THEN "valid"
    ELSE "invalid"

\* authenticateToken: 401 without a token, 403 when jwt.verify fails,
\* otherwise req.user is set and next() runs
authenticateToken(q) ==
    LET token == HeaderToken(q.header) IN
    IF Falsy(token)
    THEN [q EXCEPT !.pc = "done", !.status = 401,
                   !.error = "Access token required"]
    ELSE IF ~jwtVerify(token, now)
    THEN [q EXCEPT !.pc = "done", !.status = 403,
                   !.error = "Invalid or expired token"]
    ELSE [q EXCEPT !.user = token.sub,
                   !.pc = IF q.ep \in GatedEndpoints THEN "gate" ELSE "handler"]

Arrive(r, eps, hdrs, ids, forms, bodies) ==
    /\ reqs[r].pc \in {"idle", "done"}
    /\ \E ep \in eps, h \in hdrs, id \in ids, f \in forms, b \in bodies :
         reqs' = [reqs EXCEPT ![r] =
            authenticateToken(
              [IdleReq EXCEPT !.pc = "auth", !.ep = ep, !.header = h,
                 !.id = IF ep \in {"update", "delete"} THEN id ELSE 0,
                 !.form = IF ep = "create" THEN f ELSE NoForm,
                 !.updates = IF ep = "update" THEN b ELSE <<>>,
                 !.cred = Credential(h, now)])]
    /\ UNCHANGED <<scanVars, frontVars, now, users, customers, tokens, regs, transactions,
                   lastTxId, dbQueue>>

\* Math.floor((now - trialStart) / (1000 * 60 * 60 * 24))
DaysSinceStart(user, t) ==
    (t - DateParse(user.trial_start_date)) \div TicksPerDay

TrialLength(user) ==
    IF user.trial_extended # 0 THEN ExtendedTrialDays ELSE TrialDays

\* the gate without the pass for an active subscription
GateAdmitsTrialOnly(user, t) ==
    ~(DaysSinceStart(user, t) >= TrialLength(user))

\* the gate with > in place of >=
GateAdmitsLate(user, t) ==
    \/ user.subscription_status = "active"
    \/ ~(DaysSinceStart(user, t) > TrialLength(user))

\* checkSubscription / checkTrialStatus, given the row db.get found
GateAdmits(user, t) ==
    \/ user.subscription_status = "active"
    \/ ~(DaysSinceStart(user, t) >= TrialLength(user))

checkSubscription(q) ==
    IF q.user \notin UserIds
    THEN [q EXCEPT !.pc = "done", !.status = 404, !.error = "User not found",
                   !.gateRan = TRUE]
    ELSE IF GateAdmits(users[q.user], now)
    THEN [q EXCEPT !.pc = "handler", !.gateRan = TRUE]
    ELSE [q EXCEPT !.pc = "done", !.status = 403,
                   !.error = "Subscription expired", !.trialExpired = TRUE,
                   !.gateRan = TRUE]

Gate(r) ==
    /\ reqs[r].pc = "gate"
    /\ reqs' = [reqs EXCEPT ![r] = checkSubscription(reqs[r])]
    /\ UNCHANGED <<scanVars, frontVars, now, users, customers, tokens, regs, transactions,
                   lastTxId, dbQueue>>

---------------------------------------------------------------------------
(* SQL text.  A statement is a sequence of tokens; a JSON key of the       *)
(* request body is whatever text the caller sent, so a key is a sequence   *)
(* of tokens too.  "--" starts a comment that runs to the end of the       *)
(* statement (the statements are built on one line).                       *)

RECURSIVE StripComment(_)
StripComment(toks) ==
    IF toks = <<>> THEN <<>>
    ELSE IF Head(toks) = "--" THEN <<>>
    ELSE <<Head(toks)>> \o StripComment(Tail(toks))

\* item (sep item)*, an item being  column = ?
RECURSIVE ParseItems(_, _, _)
ParseItems(toks, sep, acc) ==
    IF Len(toks) >= 3 /\ toks[1] \in Columns /\ toks[2] = "=" /\ toks[3] = "?"
    THEN LET rest == SubSeq(toks, 4, Len(toks)) IN
         IF rest # <<>> /\ rest[1] = sep
         THEN ParseItems(Tail(rest), sep, Append(acc, toks[1]))
         ELSE [ok |-> TRUE, cols |-> Append(acc, toks[1]), rest |-> rest]
    ELSE [ok |-> FALSE, cols |-> acc, rest |-> toks]

\* A condition: items joined by AND and OR, AND binding tighter.  The
\* result lists the OR-ed groups; an item is <<column, placeholder number>>.
RECURSIVE ParseWhere(_, _, _)
ParseWhere(toks, n, groups) ==
    IF Len(toks) >= 3 /\ toks[1] \in Columns /\ toks[2] = "=" /\ toks[3] = "?"
    THEN LET g == [groups EXCEPT ![Len(groups)] = Append(@, <<toks[1], n + 1>>)]
             rest == SubSeq(toks, 4, Len(toks))
         IN  IF rest = <<>> THEN [ok |-> TRUE, groups |-> g, holes |-> n + 1]
             ELSE IF rest[1] = "AND" THEN ParseWhere(Tail(rest), n + 1, g)
             ELSE IF rest[1] = "OR"
                  THEN ParseWhere(Tail(rest), n + 1, Append(g, <<>>))
             ELSE [ok |-> FALSE, groups |-> g, holes |-> 0]
    ELSE [ok |-> FALSE, groups |-> groups, holes |-> 0]

SyntaxError == [ok |-> FALSE, set |-> <<>>, where |-> <<>>, holes |-> 0]

\* UPDATE transactions SET item, ... [WHERE condition]
ParseUpdate(sql) ==
    LET toks == StripComment(sql) IN
    IF Len(toks) < 3 \/ SubSeq(toks, 1, 3) # <<"UPDATE", "transactions", "SET">>
    THEN SyntaxError
    ELSE LET a == ParseItems(SubSeq(toks, 4, Len(toks)), ",", <<>>) IN
         IF ~a.ok THEN SyntaxError
         ELSE IF a.rest = <<>>
              THEN [ok |-> TRUE, set |-> a.cols, where |-> <<>>,
                    holes |-> Len(a.cols)]
         ELSE IF a.rest[1] # "WHERE" THEN SyntaxError
         ELSE LET w == ParseWhere(Tail(a.rest), Len(a.cols), << <<>> >>) IN
              IF w.ok
              THEN [ok |-> TRUE, set |-> a.cols, where |-> w.groups,
                    holes |-> w.holes]
              ELSE SyntaxError

\* the value bound to placeholder i; a placeholder left unbound is NULL
Bound(params, i) == IF i <= Len(params) THEN params[i] ELSE NULL

\* WHERE: some group all of whose comparisons hold (none holds with NULL)
RowMatches(row, where, params) ==
    \/ where = <<>>
    \/ \E g \in DOMAIN where : \A k \in DOMAIN where[g] :
          /\ Bound(params, where[g][k][2]) # NULL
          /\ row[where[g][k][1]] = Bound(params, where[g][k][2])

\* the assignments, with a stored override map also written over the
\* milestone columns it names
AssignRowMerging(row, cols, params) ==
    LET new == [c \in DOMAIN row |->
                  IF \E i \in DOMAIN cols : cols[i] = c
                  THEN LET i == CHOOSE i \in DOMAIN cols :
                                  /\ cols[i] = c
                                  /\ \A j \in DOMAIN cols : cols[j] = c => j <= i
                       IN  Bound(params, i)
                  ELSE row[c]]
    IN  [c \in DOMAIN row |->
           IF \E i \in DOMAIN new.modified_deadlines.pairs :
                 new.modified_deadlines.pairs[i][1] = c
           THEN LET i == CHOOSE i \in DOMAIN new.modified_deadlines.pairs :
                           new.modified_deadlines.pairs[i][1] = c
                IN  new.modified_deadlines.pairs[i][2]
           ELSE new[c]]

\* The row after the assignments: a column named twice keeps the last value.
AssignRow(row, cols, params) ==
    [c \in DOMAIN row |->
        IF \E i \in DOMAIN cols : cols[i] = c
        THEN LET i == CHOOSE i \in DOMAIN cols :
                        /\ cols[i] = c
                        /\ \A j \in DOMAIN cols : cols[j] = c => j <= i
             IN  Bound(params, i)
        ELSE row[c]]

\* db.run of an UPDATE with positional parameters: a statement that does
\* not parse, or that is given more parameters than it has placeholders,
\* fails and changes nothing.
ExecUpdate(table, sql, params) ==
    LET p == ParseUpdate(sql) IN
    IF ~p.ok \/ Len(params) > p.holes
    THEN [err |-> TRUE, table |-> table]
    ELSE [err |-> FALSE,
          table |->
            { IF RowMatches(row, p.where, params)
              THEN AssignRow(row, p.set, params)
              ELSE row : row \in table }]

---------------------------------------------------------------------------
(* PUT /api/transactions/:id builds its statement from the body's keys.    *)

\* fields.map(field => `${field} = ?`).join(', ')
RECURSIVE SetClause(_)
SetClause(updates) ==
    IF updates = <<>> THEN <<>>
    ELSE updates[1][1] \o <<"=", "?">>
           \o (IF Len(updates) > 1 THEN <<",">> ELSE <<>>)
           \o SetClause(Tail(updates))

\* modified_deadlines is stored as JSON text, every other value as sent
UpdateValues(updates) ==
    [i \in DOMAIN updates |->
        IF updates[i][1] = <<"modified_deadlines">>
        THEN JSONstringify(updates[i][2])
        ELSE updates[i][2]]

UpdateWhere == <<"WHERE", "id", "=", "?", "AND", "user_id", "=", "?">>

UpdateStatement(updates) ==
    <<"UPDATE", "transactions", "SET">> \o SetClause(updates) \o UpdateWhere

UpdateParams(updates, id, userId) == UpdateValues(updates) \o <<id, userId>>

\* DELETE FROM transactions WHERE id = ? AND user_id = ?
DeleteRows(table, id, userId) ==
    {row \in table : ~(row.id = id /\ row.user_id = userId)}

\* the SELECT without its WHERE clause
SelectAllRows(table, userId) == table

\* SELECT * FROM transactions WHERE user_id = ?
SelectRows(table, userId) == {row \in table : row.user_id = userId}

\* the mapping of a listed row that drops the stored override map
ParseRowNoOverrides(row) == [row EXCEPT !.modified_deadlines = EmptyObject]

\* row => ({...row, modified_deadlines: row.modified_deadlines ? JSON.parse(..) : {}})
ParseRow(row) ==
    [row EXCEPT !.modified_deadlines =
        IF row.modified_deadlines # NoText
        THEN JSONparse(row.modified_deadlines) ELSE EmptyObject]

\* the row POST /api/transactions inserts: list_price || 0, notes || '', '{}'
NewTxRow(id, userId, f) ==
    [ id |-> id, user_id |-> userId, submitter |-> userId,
      contract_date |-> f.contract_date, closing_date |-> f.closing_date,
      list_price |-> OrElse(f.list_price, 0),
      option_period_end |-> f.option_period_end,
      inspection_date |-> f.inspection_date,
      appraisal_date |-> f.appraisal_date,
      financing_deadline |-> f.financing_deadline,
      notes |-> f.notes,
      modified_deadlines |-> JSONstringify(EmptyObject) ]

\* contract_date TEXT NOT NULL, closing_date TEXT NOT NULL
InsertTxFails(f) == f.contract_date = NULL \/ f.closing_date = NULL

---------------------------------------------------------------------------
(* The endpoint handlers: the statement runs and its callback answers.     *)

Answer(r, status, error) ==
    [reqs EXCEPT ![r].pc = "done", ![r].status = status, ![r].error = error,
                 ![r].handlerRan = TRUE]

\* GET /api/transactions
HandleList(r) ==
    /\ reqs[r].pc = "handler" /\ reqs[r].ep = "list"
    /\ reqs' = IF \E row \in SelectRows(transactions, reqs[r].user) :
                       JSONparseThrows(row.modified_deadlines)
                THEN \* the callback throws: no answer, and nothing catches it
                     [reqs EXCEPT ![r].pc = "crashed"]
                ELSE [Answer(r, 200, "") EXCEPT
                        ![r].rows = {ParseRow(row) :
                                       row \in SelectRows(transactions, reqs[r].user)}]
    /\ UNCHANGED <<scanVars, frontVars, now, users, customers, tokens, regs, transactions,
                   lastTxId, dbQueue>>

\* POST /api/transactions
HandleCreate(r) ==
    /\ reqs[r].pc = "handler" /\ reqs[r].ep = "create"
    /\ IF InsertTxFails(reqs[r].form)
       THEN /\ reqs' = Answer(r, 500, "Failed to create transaction")
            /\ UNCHANGED <<transactions, lastTxId>>
       ELSE /\ transactions' = transactions \cup
                   {NewTxRow(lastTxId + 1, reqs[r].user, reqs[r].form)}
            /\ lastTxId' = lastTxId + 1
            /\ reqs' = [Answer(r, 200, "") EXCEPT ![r].newId = lastTxId + 1]
    /\ UNCHANGED <<scanVars, frontVars, now, users, customers, tokens, regs, dbQueue>>

\* PUT /api/transactions/:id
HandleUpdate(r) ==
    /\ reqs[r].pc = "handler" /\ reqs[r].ep = "update"
    /\ LET res == ExecUpdate(transactions,
                             UpdateStatement(reqs[r].updates),
                             UpdateParams(reqs[r].updates, reqs[r].id,
                                          reqs[r].user))
       IN  /\ transactions' = res.table
           /\ reqs' = IF res.err
                      THEN Answer(r, 500, "Failed to update transaction")
                      ELSE Answer(r, 200, "")
    /\ UNCHANGED <<scanVars, frontVars, now, users, customers, tokens, regs, lastTxId, dbQueue>>

\* DELETE /api/transactions/:id
HandleDelete(r) ==
    /\ reqs[r].pc = "handler" /\ reqs[r].ep = "delete"
    /\ transactions' = DeleteRows(transactions, reqs[r].id, reqs[r].user)
    /\ reqs' = Answer(r, 200, "")
    /\ UNCHANGED <<scanVars, frontVars, now, users, customers, tokens, regs, lastTxId, dbQueue>>

\* an extend-trial that flips the flag instead of setting it
HandleExtendFlipping(r) ==
    /\ reqs[r].pc = "handler" /\ reqs[r].ep = "extend"
    /\ users' = [i \in UserIds |->
                   IF i = reqs[r].user
                   THEN [users[i] EXCEPT !.trial_extended = 1 - @] ELSE users[i]]
    /\ reqs' = Answer(r, 200, "")
    /\ UNCHANGED <<scanVars, frontVars, now, customers, tokens, regs, transactions, lastTxId,
                   dbQueue>>

\* POST /api/extend-trial: UPDATE users SET trial_extended = 1 WHERE id = ?
HandleExtend(r) ==
    /\ reqs[r].pc = "handler" /\ reqs[r].ep = "extend"
    /\ users' = [i \in UserIds |->
                   IF i = reqs[r].user
                   THEN [users[i] EXCEPT !.trial_extended = 1] ELSE users[i]]
    /\ reqs' = Answer(r, 200, "")
    /\ UNCHANGED <<scanVars, frontVars, now, customers, tokens, regs, transactions, lastTxId,
                   dbQueue>>

---------------------------------------------------------------------------
(* POST /api/webhook.  The handler checks the signature, hands the UPDATE  *)
(* to db.run without a callback and answers at once; the statement runs    *)
(* later.                                                                  *)

SubscriptionIds == {users[i].subscription_id : i \in UserIds} \ {0}

\* event.type = 'checkout.session.completed', metadata.user_id = u
WebhookCheckout(u) ==
    /\ u \in UserIds
    /\ Len(dbQueue) < MaxQueue
    /\ \E sigOk \in BOOLEAN :
         dbQueue' = IF sigOk
                    THEN Append(dbQueue, [op |-> "activate", id |-> u,
                                          sub |-> u, status |-> "active"])
                    ELSE dbQueue
    /\ UNCHANGED <<scanVars, frontVars, now, users, customers, tokens, regs, reqs, transactions,
                   lastTxId>>

\* the status stored as the event gives it
StoredStatusAsSent(st) == st

\* subscription.status === 'active' ? 'active' : 'inactive'
StoredStatus(st) == IF st = "active" THEN "active" ELSE "inactive"

\* event.type = 'customer.subscription.updated' / '.deleted'
WebhookSubscription(sub) ==
    /\ sub \in SubscriptionIds
    /\ Len(dbQueue) < MaxQueue
    /\ \E sigOk \in BOOLEAN, st \in {"active", "canceled"} :
         dbQueue' = IF sigOk
                    THEN Append(dbQueue,
                           [op |-> "setStatus", id |-> 0, sub |-> sub,
                            event |-> st, status |-> StoredStatus(st)])
                    ELSE dbQueue
    /\ UNCHANGED <<scanVars, frontVars, now, users, customers, tokens, regs, reqs, transactions,
                   lastTxId>>

\* the queued UPDATE users ... runs
DbRun ==
    /\ dbQueue # <<>>
    /\ LET st == Head(dbQueue) IN
       users' = [i \in UserIds |->
          IF st.op = "activate" /\ i = st.id
          THEN [users[i] EXCEPT !.subscription_status = "active",
                                !.subscription_id = st.sub]
          ELSE IF st.op = "setStatus" /\ users[i].subscription_id = st.sub
          THEN [users[i] EXCEPT !.subscription_status = st.status]
          ELSE users[i]]
    /\ dbQueue' = Tail(dbQueue)
    /\ UNCHANGED <<scanVars, frontVars, now, customers, tokens, regs, reqs, transactions, lastTxId>>

---------------------------------------------------------------------------
(* The clock *)

Tick(limit) ==
    /\ now < limit
    /\ now' = now + 1
    /\ UNCHANGED <<scanVars, frontVars, users, customers, tokens, regs, reqs, transactions,
                   lastTxId, dbQueue>>

---------------------------------------------------------------------------
(* Request inputs *)

FullForm ==
    [ contract_date |-> 10, closing_date |-> 40, list_price |-> 250,
      option_period_end |-> 17, inspection_date |-> 20,
      appraisal_date |-> 24, financing_deadline |-> 31, notes |-> "" ]

NoContractDate == [FullForm EXCEPT !.contract_date = NULL]

NotesUpdate == << <<<<"notes">>, "call client">> >>

\* {"modified_deadlines": m}
OverrideUpdate(m) == << <<<<"modified_deadlines">>, m>> >>

\* {"list_price": v}
PriceUpdate(v) == << <<<<"list_price">>, v>> >>

\* {}
EmptyBody == <<>>

\* {"user_id": u}
OwnerUpdate(u) == << <<<<"user_id">>, u>> >>

\* {"notes = ? WHERE id = ? OR user_id = ? --": "call client"}
InjectedUpdate ==
    << << <<"notes", "=", "?", "WHERE", "id", "=", "?", "OR",
            "user_id", "=", "?", "--">>, "call client" >> >>

CreateRoom ==
    lastTxId + Cardinality({x \in DOMAIN reqs :
                              reqs[x].pc \in {"gate", "handler"}
                              /\ reqs[x].ep = "create"}) < MaxTx

\* the users table after the given registrations (email, tick of the
\* registration), in order
RegisteredUsers(regsDone) ==
    [i \in DOMAIN regsDone |->
        NewUserRow(regsDone[i][1], i, toISOString(regsDone[i][2]))]

IssuedTokens(regsDone) ==
    {jwtSign(i, regsDone[i][2]) : i \in DOMAIN regsDone}

---------------------------------------------------------------------------
(* Specification of the trial gate: one user, just registered; time goes   *)
(* by, billing events arrive, and one request at a time goes through the   *)
(* middleware.  The requests are chosen to leave the table empty.          *)

InitGate ==
    /\ now = MaxRegTick
    /\ users = RegisteredUsers(<< <<"a@x", now>> >>)
    /\ customers = <<"a@x">>
    /\ tokens = IssuedTokens(<< <<"a@x", now>> >>)
    /\ regs = [s \in {1} |-> IdleReg]
    /\ reqs = [r \in {1} |-> IdleReq]
    /\ transactions = {}
    /\ lastTxId = 0
    /\ dbQueue = <<>>
    /\ ScannerOff

NextGate ==
    \/ \E r \in DOMAIN reqs :
         Arrive(r, GatedEndpoints \cup {"extend"}, Headers, {1},
                {NoContractDate}, {NotesUpdate})
    \/ \E r \in DOMAIN reqs : Gate(r)
    \/ \E r \in DOMAIN reqs : HandleList(r)
    \/ \E r \in DOMAIN reqs : HandleCreate(r)
    \/ \E r \in DOMAIN reqs : HandleUpdate(r)
    \/ \E r \in DOMAIN reqs : HandleDelete(r)
    \/ \E r \in DOMAIN reqs : HandleExtend(r)
    \/ \E u \in UserIds : WebhookCheckout(u)
    \/ \E sub \in UserIds : WebhookSubscription(sub)
    \/ DbRun
    \/ Tick(MaxNow)

SpecGate == InitGate /\ [][NextGate]_vars

---------------------------------------------------------------------------
(* C1: a request by a user whose subscription is not active passes the     *)
(* trial gate exactly when fewer than 15 whole days (22 once the trial is  *)
(* extended) have elapsed since the trial start; otherwise it is answered  *)
(* 403 with trialExpired and its handler never runs.                       *)

WholeDaysElapsed(u) ==
    CHOOSE d \in 0..MaxDay :
        /\ d * TicksPerDay <= now - DateParse(users[u].trial_start_date)
        /\ now - DateParse(users[u].trial_start_date) < (d + 1) * TicksPerDay

C1_TrialGate ==
    [][\A r \in DOMAIN reqs :
          ( /\ reqs[r].pc = "gate"
            /\ reqs'[r].pc # "gate"
            /\ reqs[r].ep \in {"list", "create", "update", "delete"}
            /\ users[reqs[r].user].subscription_status # "active" )
          => IF WholeDaysElapsed(reqs[r].user)
                  < (IF users[reqs[r].user].trial_extended = 0 THEN 15 ELSE 22)
             THEN /\ reqs'[r].pc = "handler"
                  /\ reqs'[r].status = 0
             ELSE /\ reqs'[r].pc = "done"
                  /\ reqs'[r].status = 403
                  /\ reqs'[r].trialExpired
                  /\ ~reqs'[r].handlerRan]_vars

\* a request refused on the very tick the extended trial runs out
C1_Witness ==
    \E r \in DOMAIN reqs :
        /\ reqs[r].pc = "done" /\ reqs[r].status = 403 /\ reqs[r].trialExpired
        /\ users[reqs[r].user].trial_extended = 1
        /\ users[reqs[r].user].subscription_status = "inactive"
        /\ now = DateParse(users[reqs[r].user].trial_start_date)
                   + 22 * TicksPerDay

---------------------------------------------------------------------------
(* C2: a transaction request without a token is answered 401, one whose    *)
(* token fails verification 403, and for neither does the trial gate or    *)
(* the handler run.                                                        *)

C2_NoCredentialNoAccess ==
    \A r \in DOMAIN reqs :
        (reqs[r].pc # "idle" /\ reqs[r].ep \in GatedEndpoints) =>
            /\ reqs[r].cred = "none" =>
                 /\ reqs[r].pc = "done" /\ reqs[r].status = 401
                 /\ ~reqs[r].gateRan /\ ~reqs[r].handlerRan
            /\ reqs[r].cred = "invalid" =>
                 /\ reqs[r].pc = "done" /\ reqs[r].status = 403
                 /\ ~reqs[r].trialExpired
                 /\ ~reqs[r].gateRan /\ ~reqs[r].handlerRan

\* a token this server issued, presented after it expired
C2_Witness ==
    \E r \in DOMAIN reqs :
        /\ reqs[r].pc = "done" /\ reqs[r].status = 403
        /\ reqs[r].ep = "delete"
        /\ reqs[r].cred = "invalid"
        /\ HeaderToken(reqs[r].header) \in tokens

---------------------------------------------------------------------------
(* Specification of registration: two registrations in flight at once on   *)
(* an empty users table.                                                   *)

InitReg ==
    /\ now = 0
    /\ users = <<>>
    /\ customers = <<>>
    /\ tokens = {}
    /\ regs = [s \in {1, 2} |-> IdleReg]
    /\ reqs = [r \in {1} |-> IdleReq]
    /\ transactions = {}
    /\ lastTxId = 0
    /\ dbQueue = <<>>
    /\ ScannerOff

NextReg ==
    \/ \E s \in DOMAIN regs : RegisterBegin(s)
    \/ \E s \in DOMAIN regs : RegisterHashed(s)
    \/ \E s \in DOMAIN regs : RegisterCustomer(s)
    \/ \E s \in DOMAIN regs : RegisterInsert(s)
    \/ Tick(MaxRegTick)

SpecReg == InitReg /\ [][NextReg]_vars

---------------------------------------------------------------------------
(* C6: a registration whose email is already in use is answered with the   *)
(* duplicate-registration error and adds no user, and at no time do two    *)
(* user rows hold the same email, also when registrations overlap.         *)

C6_UniqueEmail ==
    /\ [](\A i, j \in UserIds : users[i].email = users[j].email => i = j)
    /\ [][\A s \in DOMAIN regs :
            ( /\ regs[s].pc = "insert"
              /\ regs'[s].pc = "done"
              /\ \E i \in UserIds : users[i].email = regs[s].email )
            => /\ users' = users
               /\ regs'[s].status = 400
               /\ regs'[s].error = "Email already registered"]_vars

\* two registrations of one email overlapped: slot 2 had its customer
\* first, slot 1 inserted first
C6_Witness ==
    /\ regs[1].pc = "done" /\ regs[1].status = 200
    /\ regs[2].pc = "done" /\ regs[2].status = 400
    /\ regs[1].email = regs[2].email
    /\ regs[2].customerId # 0
    /\ regs[2].customerId < regs[1].customerId

---------------------------------------------------------------------------
(* Specification of the transaction endpoints: two registered users in     *)
(* their trial, each holding its token, send list, create, update and      *)
(* delete requests one at a time.                                          *)

TwoUsers == << <<"a@x", 0>>, <<"b@x", 0>> >>

InitTx ==
    /\ now = MaxRegTick
    /\ users = RegisteredUsers(TwoUsers)
    /\ customers = <<"a@x", "b@x">>
    /\ tokens = IssuedTokens(TwoUsers)
    /\ regs = [s \in {1} |-> IdleReg]
    /\ reqs = [r \in {1} |-> IdleReq]
    /\ transactions = {}
    /\ lastTxId = 0
    /\ dbQueue = <<>>
    /\ ScannerOff

TxBodies ==
    {NotesUpdate, EmptyBody, InjectedUpdate} \cup {OwnerUpdate(u) : u \in UserIds}

ArriveTx(r) ==
    /\ \E ep \in GatedEndpoints :
         /\ ep = "create" => CreateRoom
         /\ Arrive(r, {ep}, {Bearer(t) : t \in tokens}, 1..MaxTx, {FullForm},
                   TxBodies)

NextTx ==
    \/ \E r \in DOMAIN reqs : ArriveTx(r)
    \/ \E r \in DOMAIN reqs : Gate(r)
    \/ \E r \in DOMAIN reqs : HandleList(r)
    \/ \E r \in DOMAIN reqs : HandleCreate(r)
    \/ \E r \in DOMAIN reqs : HandleUpdate(r)
    \/ \E r \in DOMAIN reqs : HandleDelete(r)

SpecTx == InitTx /\ [][NextTx]_vars

---------------------------------------------------------------------------
(* C3: the list answered to an authenticated user holds exactly the stored *)
(* transactions whose owning-user reference is that user, each with its    *)
(* stored column values, whatever creates, updates and deletes came        *)
(* before.                                                                 *)

SameColumns(x, t) ==
    \A c \in Columns \ {"modified_deadlines"} : x[c] = t[c]

C3_ListIsOwnRows ==
    [][\A r \in DOMAIN reqs :
          ( /\ reqs[r].pc = "handler"
            /\ reqs[r].ep = "list"
            /\ reqs'[r].pc = "done" )
          => /\ reqs'[r].status = 200
             /\ \A t \in transactions :
                   t.user_id = reqs[r].user
                   => \E x \in reqs'[r].rows : SameColumns(x, t)
             /\ \A x \in reqs'[r].rows :
                   \E t \in transactions :
                      t.user_id = reqs[r].user /\ SameColumns(x, t)]_vars

\* a list answered with one's own row while the other user has a row too
C3_Witness ==
    \E r \in DOMAIN reqs :
        /\ reqs[r].pc = "done" /\ reqs[r].ep = "list" /\ reqs[r].status = 200
        /\ Cardinality(reqs[r].rows) = 1
        /\ \E t \in transactions : t.user_id # reqs[r].user
        /\ \E t \in transactions : t.user_id = reqs[r].user

---------------------------------------------------------------------------
(* C4: an update or delete request of one user, whatever its id and body,  *)
(* leaves every transaction owned by another user in the store,            *)
(* unchanged.                                                              *)

C4_OthersUntouched ==
    [][\A r \in DOMAIN reqs :
          ( /\ reqs[r].pc = "handler"
            /\ reqs[r].ep \in {"update", "delete"}
            /\ reqs'[r].pc = "done" )
          => \A t \in transactions :
                 t.user_id # reqs[r].user => t \in transactions']_vars

---------------------------------------------------------------------------
(* C5: the owner of every stored transaction is the user that submitted    *)
(* it.                                                                     *)

C5_OwnerIsSubmitter ==
    \A t \in transactions : t.user_id = t.submitter

---------------------------------------------------------------------------
(* The effective date of a milestone (glossary): the override date if the  *)
(* override map has one, otherwise the computed date.  The row is a listed *)
(* row, its override map parsed.                                           *)

EffectiveDate(row, m) ==
    IF m \in DOMAIN row.modified_deadlines
    THEN row.modified_deadlines[m]
    ELSE row[m]

---------------------------------------------------------------------------
(* Specification of the override map: one user creates transactions,       *)
(* stores override maps with PUT and reads them back with GET.             *)

OneUser == << <<"a@x", 0>> >>

OverrideMaps ==
    { EmptyObject,
      [option_period_end |-> 19],
      [inspection_date |-> 21, closing_date |-> 45] }

InitEff ==
    /\ now = MaxRegTick
    /\ users = RegisteredUsers(OneUser)
    /\ customers = <<"a@x">>
    /\ tokens = IssuedTokens(OneUser)
    /\ regs = [s \in {1} |-> IdleReg]
    /\ reqs = [r \in {1} |-> IdleReq]
    /\ transactions = {}
    /\ lastTxId = 0
    /\ dbQueue = <<>>
    /\ ScannerOff

ArriveEff(r) ==
    /\ \E ep \in {"list", "create", "update"} :
         /\ ep = "create" => CreateRoom
         /\ Arrive(r, {ep}, {Bearer(t) : t \in tokens}, 1..MaxTx, {FullForm},
                   {NotesUpdate} \cup {OverrideUpdate(m) : m \in OverrideMaps})

NextEff ==
    \/ \E r \in DOMAIN reqs : ArriveEff(r)
    \/ \E r \in DOMAIN reqs : Gate(r)
    \/ \E r \in DOMAIN reqs : HandleList(r)
    \/ \E r \in DOMAIN reqs : HandleCreate(r)
    \/ \E r \in DOMAIN reqs : HandleUpdate(r)

SpecEff == InitEff /\ [][NextEff]_vars

---------------------------------------------------------------------------
(* C10: for every transaction and milestone the effective date is the      *)
(* override when the override map holds the milestone and the computed     *)
(* date otherwise: after an update that stores an override map, the        *)
(* effective dates of the stored row are those of the map sent; the        *)
(* effective dates of a listed row are those of the stored text; and       *)
(* listing changes nothing, so resolving again gives the same.             *)

StoredOverride(t, m) ==
    \E i \in DOMAIN t.modified_deadlines.pairs :
        t.modified_deadlines.pairs[i][1] = m

---------------------------------------------------------------------------
(* The Reminder Scanner.  A pass is started by the timer or by POST        *)
(* /api/trigger-reminders; only one pass runs at a time.  A pass reads the *)
(* date once, then takes the due (transaction, milestone) pairs in order:  *)
(* it marks the pair sent, calls the Notification Sender, and counts the   *)
(* outcome.                                                                *)

storeVars == <<now, users, customers, tokens, regs, reqs, transactions,
               lastTxId, dbQueue>>

\* the owner's subscription admits the transaction to the scan
Eligible(userId) == userId \in UserIds /\ GateAdmits(users[userId], now)

\* days-until = effective date - current date
DaysUntil(t, m, today) == EffectiveDate(ParseRow(t), m) - today

Due(t, m, today) ==
    /\ Eligible(t.user_id)
    /\ EffectiveDate(ParseRow(t), m) # NULL
    /\ DaysUntil(t, m, today) >= 0
    /\ DaysUntil(t, m, today) <= ReminderWindow

DuePairs(today) ==
    {pr \in {<<t.id, m>> : t \in transactions, m \in Milestones} :
        \E t \in transactions : t.id = pr[1] /\ Due(t, pr[2], today)}

\* the due pairs with the marks ignored
UnclaimedIgnoringMarks(today, marks) == DuePairs(today)

\* the due pairs no reminder was sent for
Unclaimed(today, marks) == DuePairs(today) \ marks

\* the order a pass takes the pairs in: by transaction, then by milestone
PairKey(pr) ==
    IF pr = NoPair THEN 0
    ELSE pr[1] * (Len(MilestoneOrder) + 1)
           + (CHOOSE i \in DOMAIN MilestoneOrder : MilestoneOrder[i] = pr[2])

Ahead(p) ==
    {pr \in Unclaimed(scans[p].today, sentMarks) :
        PairKey(pr) > PairKey(scans[p].cur)}

NextPair(p) ==
    CHOOSE pr \in Ahead(p) : \A q \in Ahead(p) : PairKey(pr) <= PairKey(q)

\* a pass starts whatever the other trigger is doing
MayStartUnlocked == TRUE

\* a pass starts only when no pass is running
MayStart == scanLock.holder = "none"

StartPass(p) ==
    /\ scans[p].pc = "idle"
    /\ MayStart
    /\ scanLock.epoch < MaxScans
    /\ scanLock' = [holder |-> p, epoch |-> scanLock.epoch + 1]
    /\ scans' = [scans EXCEPT ![p] =
                   [IdleScan EXCEPT !.pc = "scan",
                                    !.epoch = scanLock.epoch + 1,
                                    !.today = now \div TicksPerDay]]

\* the periodic trigger
TimerFires ==
    /\ StartPass("timer")
    /\ UNCHANGED <<storeVars, frontVars, sentMarks, sendLog, trig>>

\* the response of POST /api/trigger-reminders to what triggerReminders gave
TriggerResponseFailsOnErrors(threw, results) ==
    IF threw \/ results.errors > 0
    THEN [pc |-> "done", status |-> 500, success |-> FALSE, results |-> NoResults]
    ELSE [pc |-> "done", status |-> 200, success |-> TRUE, results |-> results]

TriggerResponse(threw, results) ==
    IF threw
    THEN [pc |-> "done", status |-> 500, success |-> FALSE, results |-> NoResults]
    ELSE [pc |-> "done", status |-> 200, success |-> TRUE, results |-> results]

\* POST /api/trigger-reminders arrives and calls triggerReminders()
TriggerCall ==
    /\ trig.pc \in {"idle", "done"}
    /\ scanLock.epoch < MaxScans
    /\ trig' = [IdleTrig EXCEPT !.pc = "called"]
    /\ UNCHANGED <<storeVars, frontVars, scans, scanLock, sentMarks, sendLog>>

\* triggerReminders() gets the scanner: the pass starts, or the store
\* cannot be read and the call throws
ManualStart ==
    /\ trig.pc = "called"
    /\ \/ /\ StartPass("manual")
          /\ trig' = [trig EXCEPT !.pc = "running"]
       \/ /\ scans["manual"].pc = "idle" /\ MayStart
          /\ trig' = TriggerResponse(TRUE, NoResults)
          /\ UNCHANGED <<scans, scanLock>>
    /\ UNCHANGED <<storeVars, frontVars, sentMarks, sendLog>>

\* step 5 first: the pair is marked before its reminder goes out
Claim(p) ==
    /\ scans[p].pc = "scan"
    /\ Ahead(p) # {}
    /\ sentMarks' = sentMarks \cup {NextPair(p)}
    /\ scans' = [scans EXCEPT ![p].pc = "claimed", ![p].cur = NextPair(p)]
    /\ UNCHANGED <<storeVars, frontVars, scanLock, sendLog, trig>>

\* step 4: the Notification Sender is called
Invoke(p) ==
    /\ scans[p].pc = "claimed"
    /\ sendLog' = Append(sendLog, [pair |-> scans[p].cur,
                                   epoch |-> scans[p].epoch,
                                   today |-> scans[p].today,
                                   result |-> "pending"])
    /\ scans' = [scans EXCEPT ![p].pc = "sending"]
    /\ UNCHANGED <<storeVars, frontVars, scanLock, sentMarks, trig>>

\* the Sender answers {success} or fails (an error or a timeout); the
\* outcome is counted and the pass goes on
Complete(p) ==
    /\ scans[p].pc = "sending"
    /\ \E ok \in BOOLEAN :
         LET i == CHOOSE i \in DOMAIN sendLog :
                    /\ sendLog[i].pair = scans[p].cur
                    /\ sendLog[i].epoch = scans[p].epoch
                    /\ sendLog[i].result = "pending"
         IN  /\ sendLog' = [sendLog EXCEPT
                              ![i].result = IF ok THEN "ok" ELSE "failed"]
             /\ scans' = [scans EXCEPT
                   ![p].pc = "scan",
                   ![p].sent = IF ok THEN @ + 1 ELSE @,
                   ![p].errors = IF ok THEN @ ELSE @ + 1]
    /\ UNCHANGED <<storeVars, frontVars, scanLock, sentMarks, trig>>

\* no due pair is left: the pass ends with its summary, which the manual
\* trigger's handler answers with
Finish(p) ==
    /\ scans[p].pc = "scan"
    /\ Ahead(p) = {}
    /\ scans' = [scans EXCEPT ![p].pc = "idle"]
    /\ scanLock' = [scanLock EXCEPT !.holder = "none"]
    /\ trig' = IF p = "manual"
               THEN TriggerResponse(FALSE, [sent |-> scans[p].sent,
                                            errors |-> scans[p].errors])
               ELSE trig
    /\ UNCHANGED <<storeVars, frontVars, sentMarks, sendLog>>

---------------------------------------------------------------------------
(* Specification of the reminder scanner: two users with one transaction   *)
(* each, the second with its option period end overridden; the timer and   *)
(* the manual trigger start passes over two days.                          *)

ScanFromDay == FullForm.contract_date + 2

ScanRows ==
    { NewTxRow(1, 1, FullForm),
      [NewTxRow(2, 2, FullForm) EXCEPT
          !.modified_deadlines = JSONstringify([option_period_end |-> 21])] }

InitScan ==
    /\ now = ScanFromDay * TicksPerDay
    /\ users = RegisteredUsers(TwoUsers)
    /\ customers = <<"a@x", "b@x">>
    /\ tokens = IssuedTokens(TwoUsers)
    /\ regs = [s \in {1} |-> IdleReg]
    /\ reqs = [r \in {1} |-> IdleReq]
    /\ transactions = ScanRows
    /\ lastTxId = 2
    /\ dbQueue = <<>>
    /\ ScannerOff

NextScan ==
    \/ TimerFires
    \/ TriggerCall
    \/ ManualStart
    \/ \E p \in DOMAIN scans : Claim(p)
    \/ \E p \in DOMAIN scans : Invoke(p)
    \/ \E p \in DOMAIN scans : Complete(p)
    \/ \E p \in DOMAIN scans : Finish(p)
    \/ Tick((ScanFromDay + 1) * TicksPerDay)

SpecScan == InitScan /\ [][NextScan]_vars

---------------------------------------------------------------------------
(* C7: over any sequence of passes, timer-driven or manual, a              *)
(* (transaction, milestone) pair causes at most one call of the            *)
(* Notification Sender: a mark is never removed, a pass takes only         *)
(* unmarked pairs, and no call is made for a pair already called for.      *)

C7_AtMostOneSend ==
    /\ [](\A i, j \in DOMAIN sendLog :
             sendLog[i].pair = sendLog[j].pair => i = j)
    /\ [][ /\ sentMarks \subseteq sentMarks'
           /\ \A p \in DOMAIN scans :
                (scans[p].pc = "scan" /\ scans'[p].pc = "claimed")
                => scans'[p].cur \notin sentMarks
           /\ Len(sendLog') > Len(sendLog)
                => \A i \in DOMAIN sendLog :
                      sendLog[i].pair # sendLog'[Len(sendLog')].pair ]_vars

\* two passes ended on the same day, the day has not changed, and the
\* later one called the Sender for nothing although pairs are due
C7_Witness ==
    \E p, q \in DOMAIN scans :
        /\ scans[p].pc = "idle" /\ scans[q].pc = "idle"
        /\ 0 < scans[p].epoch /\ scans[p].epoch < scans[q].epoch
        /\ scans[p].today = scans[q].today
        /\ now \div TicksPerDay = scans[q].today
        /\ scans[p].sent + scans[p].errors > 0
        /\ scans[q].sent + scans[q].errors = 0
        /\ DuePairs(scans[q].today) # {}

---------------------------------------------------------------------------
(* C8: a timer pass and a manual pass never run at the same time, the      *)
(* running pass holds the scanner, a pair is marked sent in the state      *)
(* before the Notification Sender is called for it, and no reminder is     *)
(* sent twice.                                                             *)

C8_ExclusiveClaimFirst ==
    /\ [](~(scans["timer"].pc # "idle" /\ scans["manual"].pc # "idle"))
    /\ [](\A p \in DOMAIN scans : scans[p].pc # "idle" => scanLock.holder = p)
    /\ [](Cardinality({sendLog[i].pair : i \in DOMAIN sendLog}) = Len(sendLog))
    /\ [][Len(sendLog') > Len(sendLog)
            => sendLog'[Len(sendLog')].pair \in sentMarks]_vars

\* the manual trigger waits while the timer's pass is calling the Sender
\* for a pair it has marked
C8_Witness ==
    /\ trig.pc = "called"
    /\ scans["timer"].pc = "sending"
    /\ scans["manual"].pc = "idle"
    /\ scans["timer"].cur \in sentMarks
    /\ \E i \in DOMAIN sendLog :
         sendLog[i].pair = scans["timer"].cur /\ sendLog[i].result = "pending"

---------------------------------------------------------------------------
(* C9: when a manual pass ends, its caller is answered 200 with the        *)
(* summary: errors is the number of Sender calls of the pass that failed,  *)
(* sent the number that succeeded, and every pair due on the pass's date   *)
(* has had its call, whatever calls failed before it.                      *)

C9_FailureIsolated ==
    [][(trig.pc = "running" /\ trig'.pc = "done")
         => LET e == scans["manual"].epoch
                d == scans["manual"].today
            IN  /\ trig'.status = 200
                /\ trig'.success
                /\ trig'.results.errors =
                     Cardinality({i \in DOMAIN sendLog :
                                    /\ sendLog[i].epoch = e
                                    /\ sendLog[i].result = "failed"})
                /\ trig'.results.sent =
                     Cardinality({i \in DOMAIN sendLog :
                                    /\ sendLog[i].epoch = e
                                    /\ sendLog[i].result = "ok"})
                /\ \A pr \in DuePairs(d) :
                     \E i \in DOMAIN sendLog :
                        /\ sendLog[i].pair = pr
                        /\ sendLog[i].result \in {"ok", "failed"}]_vars

\* a manual pass answered with one error and two sent, the failed call
\* having come before a successful one of the same pass
C9_Witness ==
    /\ trig.pc = "done" /\ trig.status = 200
    /\ trig.results = [sent |-> 2, errors |-> 1]
    /\ \E i, j \in DOMAIN sendLog :
         /\ i < j
         /\ sendLog[i].epoch = scans["manual"].epoch
         /\ sendLog[j].epoch = scans["manual"].epoch
         /\ sendLog[i].result = "failed"
         /\ sendLog[j].result = "ok"

---------------------------------------------------------------------------
(* C11: an update whose body holds the override map and nothing else       *)
(* leaves the stored milestone columns of every transaction as they were:  *)
(* option period end, inspection, appraisal, financing deadline and        *)
(* closing date.                                                           *)

C11_ComputedDatesKept ==
    [][\A r \in DOMAIN reqs :
          ( /\ reqs[r].pc = "handler"
            /\ reqs[r].ep = "update"
            /\ reqs'[r].pc = "done"
            /\ Len(reqs[r].updates) = 1
            /\ reqs[r].updates[1][1] = <<"modified_deadlines">> )
          => /\ reqs'[r].status = 200
             /\ \A t \in transactions : \E u \in transactions' :
                  /\ u.id = t.id
                  /\ \A m \in Milestones : u[m] = t[m]
             /\ Cardinality(transactions') = Cardinality(transactions)]_vars

\* an override map with two milestones has been stored on transaction 1,
\* whose columns still hold the dates it was created with
C11_Witness ==
    /\ \E r \in DOMAIN reqs :
         /\ reqs[r].pc = "done" /\ reqs[r].ep = "update"
         /\ reqs[r].status = 200 /\ reqs[r].id = 1
         /\ reqs[r].updates = OverrideUpdate([inspection_date |-> 21,
                                              closing_date |-> 45])
    /\ \E t \in transactions :
         /\ t.id = 1
         /\ Len(t.modified_deadlines.pairs) = 2
         /\ t.inspection_date = FullForm.inspection_date
         /\ t.closing_date = FullForm.closing_date

---------------------------------------------------------------------------
(* The reminder front end (src/real-estate-server.js).                     *)

apiVars == <<now, users, customers, tokens, regs, reqs, transactions,
             lastTxId, dbQueue>>

\* startServer(): the Gmail sender is initialized (or not), the listener
\* is bound and the automation service started
StartServer ==
    /\ proc = "starting"
    /\ \E ready \in BOOLEAN : gmail' = [initialized |-> ready]
    /\ proc' = "running"
    /\ UNCHANGED <<apiVars, scanVars, addTx, autoStore, testReq>>

---------------------------------------------------------------------------
(* The Deadline Calculator and the automation service's store.  A Date is  *)
(* an instant, in ticks; the Date of a calendar day is its midnight UTC,   *)
(* as new Date('YYYY-MM-DD') gives.                                        *)

OffsetDays ==
    [ option_period_end |-> 7, inspection_date |-> 10,
      appraisal_date |-> 14, financing_deadline |-> 21 ]

ValidDate(d) == d >= 0

DateOfDay(d) == IF ValidDate(d) THEN d * TicksPerDay ELSE NaN

\* milestone = contractDate + offsetDays(milestoneKind)
DeadlineCalculator(contractDate, m) == contractDate + OffsetDays[m]

\* the record addTransaction stores
AutoRow(id, data) ==
    [ id |-> id,
      contract_date |-> data.contract_date,
      closing_date |-> data.closing_date,
      list_price |-> data.list_price,
      option_period_end |-> DeadlineCalculator(data.contract_date, "option_period_end"),
      inspection_date |-> DeadlineCalculator(data.contract_date, "inspection_date"),
      appraisal_date |-> DeadlineCalculator(data.contract_date, "appraisal_date"),
      financing_deadline |-> DeadlineCalculator(data.contract_date, "financing_deadline") ]

\* what addTransaction resolves to
AddResult(row) ==
    [ transactionId |-> row.id,
      optionPeriodEnd |-> DateOfDay(row.option_period_end),
      inspectionDate |-> DateOfDay(row.inspection_date),
      appraisalDate |-> DateOfDay(row.appraisal_date),
      financingDeadline |-> DateOfDay(row.financing_deadline),
      closingDate |-> DateOfDay(row.closing_date) ]

---------------------------------------------------------------------------
(* POST /api/add-transaction *)

\* the calendar day of the instant in a zone west of UTC
IsoDayWest(instant) == (instant - 1) \div TicksPerDay

\* date.toISOString().split('T')[0]
IsoDay(instant) == toISOString(instant)[1]

\* toISOString() of an Invalid Date throws a RangeError
IsoThrows(result) ==
    \E k \in {"optionPeriodEnd", "inspectionDate", "appraisalDate",
              "financingDeadline", "closingDate"} : result[k] = NaN

\* the body as the handler hands it to the service
TransactionData(body) ==
    [ contract_date |-> body.contract_date,
      closing_date |-> body.closing_date,
      list_price |-> OrElse(parseFloat(body.list_price), 0) ]

AddFailed(body) ==
    [IdleAdd EXCEPT !.pc = "done", !.body = body, !.status = 500]

AddTransaction(body) ==
    /\ proc = "running"
    /\ addTx.pc \in {"idle", "done"}
    /\ Len(autoStore) < MaxTx
    /\ LET data == TransactionData(body)
           row == AutoRow(Len(autoStore) + 1, data)
           result == AddResult(row)
       IN  IF ~ValidDate(data.contract_date)
           THEN \* the calculator reports the error: addTransaction rejects
                /\ autoStore' = autoStore
                /\ addTx' = AddFailed(body)
           ELSE /\ autoStore' = Append(autoStore, row)
                /\ addTx' =
                     IF IsoThrows(result)
                     THEN AddFailed(body)
                     ELSE [ pc |-> "done", body |-> body, status |-> 200,
                            success |-> TRUE,
                            transactionId |-> result.transactionId,
                            deadlines |->
                              [ optionPeriodEnd |-> IsoDay(result.optionPeriodEnd),
                                inspectionDate |-> IsoDay(result.inspectionDate),
                                appraisalDate |-> IsoDay(result.appraisalDate),
                                financingDeadline |-> IsoDay(result.financingDeadline),
                                closingDate |-> IsoDay(result.closingDate) ] ]
    /\ UNCHANGED <<apiVars, scanVars, proc, gmail, testReq>>

---------------------------------------------------------------------------
(* Specification of transaction submission at the front end.               *)

AddBodies ==
    [ contract_date : {0, FullForm.contract_date, NULL, EmptyString},
      closing_date : {FullForm.closing_date, NULL},
      list_price : {NULL, 0, FullForm.list_price, EmptyString, NonNumber,
                    NegativePrice} ]

InitAdd ==
    /\ now = 0
    /\ users = <<>>
    /\ customers = <<>>
    /\ tokens = {}
    /\ regs = [s \in {1} |-> IdleReg]
    /\ reqs = [r \in {1} |-> IdleReq]
    /\ transactions = {}
    /\ lastTxId = 0
    /\ dbQueue = <<>>
    /\ ScannerOff

NextAdd ==
    \/ StartServer
    \/ \E body \in AddBodies : AddTransaction(body)

SpecAdd == InitAdd /\ [][NextAdd]_vars

---------------------------------------------------------------------------
(* C12: a submission with a valid contract date and closing date is        *)
(* answered with each milestone on the calendar day contract date plus     *)
(* the milestone's offset and the closing date as supplied, no day         *)
(* earlier or later.                                                       *)

---------------------------------------------------------------------------
(* Specification of what a create or an update may carry: one user sends   *)
(* forms with and without a contract date and with list prices of every    *)
(* kind, and updates of the list price.                                    *)

Prices == {NULL, 0, FullForm.list_price, EmptyString, NonNumber, NegativePrice}

Forms ==
    { [FullForm EXCEPT !.contract_date = c, !.list_price = p] :
        c \in {FullForm.contract_date, NULL, EmptyString}, p \in Prices }

InitForm ==
    /\ now = MaxRegTick
    /\ users = RegisteredUsers(OneUser)
    /\ customers = <<"a@x">>
    /\ tokens = IssuedTokens(OneUser)
    /\ regs = [s \in {1} |-> IdleReg]
    /\ reqs = [r \in {1} |-> IdleReq]
    /\ transactions = {}
    /\ lastTxId = 0
    /\ dbQueue = <<>>
    /\ ScannerOff

ArriveForm(r) ==
    /\ \E ep \in {"create", "update"} :
         /\ ep = "create" => CreateRoom
         /\ Arrive(r, {ep}, {Bearer(t) : t \in tokens}, 1..MaxTx, Forms,
                   {PriceUpdate(v) : v \in {FullForm.list_price, NegativePrice}})

NextForm ==
    \/ \E r \in DOMAIN reqs : ArriveForm(r)
    \/ \E r \in DOMAIN reqs : Gate(r)
    \/ \E r \in DOMAIN reqs : HandleCreate(r)
    \/ \E r \in DOMAIN reqs : HandleUpdate(r)

SpecForm == InitForm /\ [][NextForm]_vars

---------------------------------------------------------------------------
(* C13: a submission without a contract date (absent, or left empty) is    *)
(* answered with an error and stores nothing.                              *)

C13_NoContractDateRejected ==
    [][\A r \in DOMAIN reqs :
          ( /\ reqs[r].pc = "handler"
            /\ reqs[r].ep = "create"
            /\ reqs'[r].pc = "done"
            /\ reqs[r].form.contract_date \in {NULL, EmptyString} )
          => /\ reqs'[r].status >= 400
             /\ transactions' = transactions]_vars

---------------------------------------------------------------------------
(* C15: the list price a submission stores is 0 when the submitted one is  *)
(* absent or not a number, and the submitted number otherwise.             *)

C15_ListPriceDefault ==
    [][\A r \in DOMAIN reqs :
          ( /\ reqs[r].pc = "handler"
            /\ reqs[r].ep = "create"
            /\ reqs'[r].pc = "done"
            /\ reqs'[r].status = 200 )
          => \E t \in transactions' \ transactions :
                t.list_price =
                  IF reqs[r].form.list_price \in {NULL, EmptyString, NonNumber}
                  THEN 0
                  ELSE reqs[r].form.list_price]_vars

---------------------------------------------------------------------------
(* C16: the list price of every stored transaction is a number and not     *)
(* negative.                                                               *)

C16_ListPriceNonNegative ==
    \A t \in transactions : t.list_price >= 0

---------------------------------------------------------------------------
(* C14: a delete, or a well-formed update, that names a transaction the    *)
(* caller does not have (no such id, or another user's) is answered 404,   *)
(* not success.                                                            *)

C14_AbsentIsNotFound ==
    [][\A r \in DOMAIN reqs :
          ( /\ reqs[r].pc = "handler"
            /\ reqs[r].ep \in {"update", "delete"}
            /\ reqs[r].ep = "update" => reqs[r].updates = NotesUpdate
            /\ reqs'[r].pc = "done"
            /\ ~\E t \in transactions :
                  t.id = reqs[r].id /\ t.user_id = reqs[r].user )
          => reqs'[r].status = 404]_vars

---------------------------------------------------------------------------
(* POST /api/send-test-reminder.  The Notification Sender's send resolves  *)
(* to {success, messageId | error}; a sender that was not initialized      *)
(* cannot succeed.  A send that throws is caught by the handler.           *)

SendOutcomes(initialized) ==
    IF initialized THEN {"sent", "failed", "threw"} ELSE {"failed", "threw"}

\* the response that answers every outcome as sent
TestResponseAlwaysSent(agentEmail, outcome) ==
    [pc |-> "done", agentEmail |-> agentEmail, status |-> 200, success |-> TRUE]

\* if (result.success) res.json(..) else res.status(500)..; catch: 500
TestResponse(agentEmail, outcome) ==
    [ pc |-> "done", agentEmail |-> agentEmail,
      status |-> IF outcome = "sent" THEN 200 ELSE 500,
      success |-> outcome = "sent" ]

SendTestReminder(agentEmail) ==
    /\ proc = "running"
    /\ testReq.pc \in {"idle", "done"}
    /\ IF agentEmail = ""
       THEN testReq' = [ pc |-> "done", agentEmail |-> agentEmail,
                         status |-> 400, success |-> FALSE ]
       ELSE \E outcome \in SendOutcomes(gmail.initialized) :
               testReq' = TestResponse(agentEmail, outcome)
    /\ UNCHANGED <<apiVars, scanVars, proc, gmail, addTx, autoStore>>

---------------------------------------------------------------------------
(* Specification of the front end: startup, submissions and test sends.    *)

NextFront ==
    \/ StartServer
    \/ \E body \in AddBodies : AddTransaction(body)
    \/ \E agentEmail \in Emails \cup {""} : SendTestReminder(agentEmail)

SpecFront == InitAdd /\ [][NextFront]_vars

---------------------------------------------------------------------------
(* C17: when the Notification Sender was not initialized at startup the    *)
(* server still comes up, and a test-reminder request that names an agent  *)
(* email is answered with a failure (status 500, success false) while the  *)
(* process keeps running.                                                  *)

---------------------------------------------------------------------------
(* Specification of the process under request failures: one user creates   *)
(* transactions, updates them and lists them.  An exception thrown in a    *)
(* database callback is caught by nothing (the file installs no            *)
(* uncaughtException handler), so it ends the process: no step follows.    *)

\* {"modified_deadlines = ? WHERE id = ? AND user_id = ? --": "soon"}
RawOverrideUpdate ==
    << << <<"modified_deadlines", "=", "?", "WHERE", "id", "=", "?", "AND",
            "user_id", "=", "?", "--">>, PlainText >> >>

ProcessUp == \A r \in DOMAIN reqs : reqs[r].pc # "crashed"

InitCrash ==
    /\ now = MaxRegTick
    /\ users = RegisteredUsers(OneUser)
    /\ customers = <<"a@x">>
    /\ tokens = IssuedTokens(OneUser)
    /\ regs = [s \in {1} |-> IdleReg]
    /\ reqs = [r \in {1} |-> IdleReq]
    /\ transactions = {}
    /\ lastTxId = 0
    /\ dbQueue = <<>>
    /\ ScannerOff

ArriveCrash(r) ==
    /\ ProcessUp
    /\ \E ep \in {"list", "create", "update", "delete"} :
         /\ ep = "create" => CreateRoom
         /\ Arrive(r, {ep}, {Bearer(t) : t \in tokens} \cup {NoHeader},
                   1..MaxTx, {FullForm, NoContractDate},
                   {NotesUpdate, RawOverrideUpdate})

NextCrash ==
    \/ \E r \in DOMAIN reqs : ArriveCrash(r)
    \/ \E r \in DOMAIN reqs : ProcessUp /\ Gate(r)
    \/ \E r \in DOMAIN reqs : ProcessUp /\ HandleList(r)
    \/ \E r \in DOMAIN reqs : ProcessUp /\ HandleCreate(r)
    \/ \E r \in DOMAIN reqs : ProcessUp /\ HandleUpdate(r)
    \/ \E r \in DOMAIN reqs : ProcessUp /\ HandleDelete(r)

SpecCrash == InitCrash /\ [][NextCrash]_vars

---------------------------------------------------------------------------
(* C18: no failure of a request handler ends the running process: every    *)
(* request is either still in progress or answered, none has thrown out    *)
(* of its callback and taken the process down.                             *)

C18_ProcessSurvives == \A r \in DOMAIN reqs : reqs[r].pc # "crashed"

---------------------------------------------------------------------------
(* Specification of the gate after the trial: the user registered at tick  *)
(* 0 and the clock starts on the day the extended trial runs out, so every *)
(* request is gated with the trial expired.                                *)

InitPaid ==
    /\ now = ExtendedTrialDays * TicksPerDay
    /\ users = RegisteredUsers(OneUser)
    /\ customers = <<"a@x">>
    /\ tokens = IssuedTokens(OneUser)
    /\ regs = [s \in {1} |-> IdleReg]
    /\ reqs = [r \in {1} |-> IdleReq]
    /\ transactions = {}
    /\ lastTxId = 0
    /\ dbQueue = <<>>
    /\ ScannerOff

SpecPaid == InitPaid /\ [][NextGate]_vars

---------------------------------------------------------------------------
(* C19: once the UPDATE of a verified checkout.session.completed webhook   *)
(* has run, the user is 'active', and every transaction request of a user  *)
(* who is 'active' when the gate runs passes the gate, however old the     *)
(* trial is.                                                               *)

C19_ActiveBypassesTrial ==
    /\ [][( /\ dbQueue # <<>>
            /\ dbQueue' = Tail(dbQueue)
            /\ Head(dbQueue).op = "activate" )
          => users'[Head(dbQueue).id].subscription_status = "active"]_vars
    /\ [][\A r \in DOMAIN reqs :
            ( /\ reqs[r].pc = "gate"
              /\ reqs'[r].pc # "gate"
              /\ reqs[r].ep \in GatedEndpoints
              /\ reqs[r].user \in UserIds
              /\ users[reqs[r].user].subscription_status = "active" )
            => /\ reqs'[r].pc = "handler"
               /\ reqs'[r].status = 0
               /\ ~reqs'[r].trialExpired]_vars

\* a paying user's request answered 200 with the trial long over
C19_Witness ==
    \E r \in DOMAIN reqs :
        /\ reqs[r].pc = "done" /\ reqs[r].status = 200
        /\ reqs[r].ep \in GatedEndpoints
        /\ reqs[r].gateRan /\ reqs[r].handlerRan
        /\ users[reqs[r].user].subscription_status = "active"
        /\ users[reqs[r].user].trial_extended = 0
        /\ DaysSinceStart(users[reqs[r].user], now) >= ExtendedTrialDays

---------------------------------------------------------------------------
(* Specification of the trial extension: one user, two requests in flight, *)
(* around the days the trial and the extended trial run out, with every    *)
(* operation that writes the users table.                                  *)

ExtendFromDay == TrialDays - 1

InitExtend ==
    /\ now = ExtendFromDay * TicksPerDay
    /\ users = RegisteredUsers(OneUser)
    /\ customers = <<"a@x">>
    /\ tokens = IssuedTokens(OneUser)
    /\ regs = [s \in {1} |-> IdleReg]
    /\ reqs = [r \in {1, 2} |-> IdleReq]
    /\ transactions = {}
    /\ lastTxId = 0
    /\ dbQueue = <<>>
    /\ ScannerOff

NextExtend ==
    \/ \E r \in DOMAIN reqs :
         Arrive(r, {"list", "delete", "extend"}, {Bearer(t) : t \in tokens},
                {1}, {NoContractDate}, {NotesUpdate})
    \/ \E r \in DOMAIN reqs : Gate(r)
    \/ \E r \in DOMAIN reqs : HandleList(r)
    \/ \E r \in DOMAIN reqs : HandleDelete(r)
    \/ \E r \in DOMAIN reqs : HandleExtend(r)
    \/ \E u \in UserIds : WebhookCheckout(u)
    \/ \E sub \in UserIds : WebhookSubscription(sub)
    \/ DbRun
    \/ Tick((ExtendedTrialDays + 1) * TicksPerDay)

SpecExtend == InitExtend /\ [][NextExtend]_vars

---------------------------------------------------------------------------
(* C20: an extend-trial request leaves the user's trial length at 22 days, *)
(* up from 15 when it is the first; and no step of any operation takes a   *)
(* set extension flag back to not-extended.                                *)

C20_ExtendableOnce ==
    /\ [][\A r \in DOMAIN reqs :
            ( /\ reqs[r].pc = "handler"
              /\ reqs[r].ep = "extend"
              /\ reqs'[r].pc = "done" )
            => /\ reqs'[r].status = 200
               /\ TrialLength(users'[reqs[r].user]) = ExtendedTrialDays
               /\ users[reqs[r].user].trial_extended = 0
                    => TrialLength(users[reqs[r].user]) = TrialDays]_vars
    /\ [][\A u \in UserIds :
            users[u].trial_extended # 0
              => /\ u \in DOMAIN users'
                 /\ users'[u].trial_extended # 0]_vars

\* two extend-trial requests answered, the second with the flag already set
C20_Witness ==
    /\ \A r \in DOMAIN reqs :
         /\ reqs[r].pc = "done" /\ reqs[r].ep = "extend" /\ reqs[r].status = 200
    /\ users[1].trial_extended = 1
    /\ TrialLength(users[1]) = ExtendedTrialDays
    /\ users[1].subscription_status # "active"

---------------------------------------------------------------------------
(* Specification of overlapping updates: one user with two requests in     *)
(* flight creates transactions and sends updates that carry override maps. *)
(* Updates arrive only while no update has been answered, so any two       *)
(* updates overlap in time.                                                *)

NextOverlap ==
    \/ \E r \in DOMAIN reqs :
         /\ \E ep \in {"create", "update"} :
              /\ ep = "create" => CreateRoom
              /\ ep = "update" =>
                   \A q \in DOMAIN reqs :
                       ~(reqs[q].ep = "update" /\ reqs[q].pc = "done")
              /\ Arrive(r, {ep}, {Bearer(t) : t \in tokens}, 1..MaxTx,
                        {FullForm},
                        {OverrideUpdate(m) : m \in OverrideMaps})
    \/ \E r \in DOMAIN reqs : Gate(r)
    \/ \E r \in DOMAIN reqs : HandleCreate(r)
    \/ \E r \in DOMAIN reqs : HandleUpdate(r)

SpecOverlap == InitExtend /\ [][NextOverlap]_vars

---------------------------------------------------------------------------
(* C21: when an update that carries an override map is carried out while   *)
(* another update of the same transaction is in flight or has been         *)
(* carried out, the transaction's stored override map is afterwards the    *)
(* whole map of one of the two requests: never a mixture of both, never a  *)
(* part of one.                                                            *)

C21_WholeMapOfOne ==
    [][\A r, q \in DOMAIN reqs :
          ( /\ r # q
            /\ reqs[r].pc = "handler" /\ reqs[r].ep = "update"
            /\ reqs'[r].pc = "done"
            /\ reqs[q].pc \in {"gate", "handler", "done"}
            /\ reqs[q].ep = "update"
            /\ reqs[q].id = reqs[r].id )
          => LET Holds(t, map) ==
                     /\ t.modified_deadlines.json = "object"
                     /\ Len(t.modified_deadlines.pairs)
                          = Cardinality(DOMAIN map)
                     /\ \A m \in DOMAIN map :
                          \E i \in DOMAIN t.modified_deadlines.pairs :
                              t.modified_deadlines.pairs[i] = <<m, map[m]>>
             IN  /\ reqs'[r].status = 200
                 /\ \A t \in transactions' :
                      t.id = reqs[r].id =>
                        \/ Holds(t, reqs[r].updates[1][2])
                        \/ Holds(t, reqs[q].updates[1][2])]_vars

\* both updates of transaction 1 answered, with different maps; the stored
\* map is the two-pair map of request 2, whole
C21_Witness ==
    /\ \A r \in DOMAIN reqs :
         /\ reqs[r].pc = "done" /\ reqs[r].ep = "update"
         /\ reqs[r].status = 200 /\ reqs[r].id = 1
    /\ reqs[1].updates = OverrideUpdate([option_period_end |-> 19])
    /\ reqs[2].updates
         = OverrideUpdate([inspection_date |-> 21, closing_date |-> 45])
    /\ \E t \in transactions :
         /\ t.id = 1
         /\ t.modified_deadlines.pairs
              = << <<"inspection_date", 21>>, <<"closing_date", 45>> >>

---------------------------------------------------------------------------
(* C22: the UPDATE of a customer.subscription.updated or .deleted event    *)
(* stores 'active' when the event's subscription status is 'active' and    *)
(* 'inactive' otherwise, for the user who holds the subscription; and a    *)
(* transaction request of a user stored 'inactive' passes the gate when    *)
(* fewer whole days than the trial length (15, or 22 extended) have gone   *)
(* by since the trial start and is otherwise answered 403, trial expired,  *)
(* with no handler run.                                                    *)

C22_SubscriptionEventStatus ==
    /\ [][( /\ dbQueue # <<>>
            /\ dbQueue' = Tail(dbQueue)
            /\ Head(dbQueue).op = "setStatus" )
          => \A u \in UserIds :
                users[u].subscription_id = Head(dbQueue).sub
                  => users'[u].subscription_status
                       = IF Head(dbQueue).event = "active"
                         THEN "active" ELSE "inactive"]_vars
    /\ [][\A r \in DOMAIN reqs :
            ( /\ reqs[r].pc = "gate"
              /\ reqs'[r].pc # "gate"
              /\ reqs[r].ep \in GatedEndpoints
              /\ reqs[r].user \in UserIds
              /\ users[reqs[r].user].subscription_status = "inactive" )
            => IF WholeDaysElapsed(reqs[r].user)
                    < TrialLength(users[reqs[r].user])
               THEN reqs'[r].pc = "handler"
               ELSE /\ reqs'[r].pc = "done"
                    /\ reqs'[r].status = 403
                    /\ reqs'[r].trialExpired
                    /\ ~reqs'[r].handlerRan]_vars

\* a user whose subscription was cancelled, refused once the trial is over
C22_Witness ==
    \E r \in DOMAIN reqs :
        /\ reqs[r].pc = "done" /\ reqs[r].status = 403 /\ reqs[r].trialExpired
        /\ reqs[r].ep \in GatedEndpoints
        /\ users[reqs[r].user].subscription_status = "inactive"
        /\ users[reqs[r].user].subscription_id # 0
        /\ dbQueue = <<>>

---------------------------------------------------------------------------
(* C23: a registration that fails leaves nothing behind: every customer    *)
(* created at the billing provider is held by a stored user, or belongs    *)
(* to a registration whose INSERT has yet to run.                          *)

C23_NoOrphanCustomer ==
    \A c \in DOMAIN customers :
        \/ \E i \in UserIds : users[i].stripe_customer_id = c
        \/ \E s \in DOMAIN regs :
              regs[s].pc = "insert" /\ regs[s].customerId = c

---------------------------------------------------------------------------
(* C24: when the webhook has answered {received: true} to a               *)
(* checkout.session.completed event, the user's status is already stored   *)
(* as 'active': no acknowledged activation is still waiting to be written. *)

C24_AcknowledgedIsStored ==
    \A i \in DOMAIN dbQueue :
        dbQueue[i].op = "activate"
          => users[dbQueue[i].id].subscription_status = "active"

===========================================================================
